---- MODULE Spec2Model ----
(***************************************************************************)
(* Model of Backend/server-interface/db_handler.py (class DbHandler): the  *)
(* generic insert (insertGeneralData), the identity resolvers              *)
(* (processDeviceData, processSpeakerData), the session ingestion pipeline *)
(* (processSessionData) and the recording store (writeRecToFilesystem).    *)
(*                                                                         *)
(* The relational store is the committed tables (db), the uncommitted      *)
(* writes of a request's connection (tx) and the auto-increment counters   *)
(* (autoinc).  A statement that raises MySQLError is an input of the step  *)
(* that executes it.  The JSON body of a submission is revealed key by     *)
(* key, at the step whose code reads the key.                              *)
(***************************************************************************)
EXTENDS Integers, Sequences, FiniteSets, TLC

VARIABLES
    db,        \* committed rows of every table
    tx,        \* uncommitted writes of the connection of the running request
    autoinc,   \* next auto-increment id of every table
    fs,        \* files under recordings_path: path -> content
    op,        \* the handler that runs or has last returned
    pc,        \* position inside the handler
    calls,     \* number of requests started so far
    local,     \* the local variables of processSessionData, by their names
    request,   \* the document given to a resolver that is called directly
    resp,      \* what the last finished request returned
    pre,       \* db as it was when the running or last request started
    fault,     \* the statement failure that a directly called handler met
    serial,    \* concurrent requests: TRUE when the server runs one at a time
    proc       \* concurrent requests: the resolver call of every worker

vars == <<db, tx, autoinc, fs, op, pc, calls, local, request, resp, pre, fault,
          serial, proc>>

----------------------------------------------------------------------------
(* Bounds of the model *)

MaxCalls == 2        \* submissions per behaviour
MaxRecs == 2         \* uploaded files per submission
MaxRequests == 3     \* direct device resolver calls per behaviour
MaxCountRequests == 2    \* direct calls of getRecordingCount per behaviour
MaxSetRequests == 1      \* calls of getFromSet per behaviour
MaxSetRecordings == 2    \* recordings in store besides the placeholder
MaxMembers == 3          \* membership rows of the evaluation set
MaxProgress == 3         \* largest progress asked for
MaxCount == 3            \* largest count asked for
MaxEvalRequests == 1     \* calls of processEvaluation per behaviour
MaxProgressRequests == 1 \* calls of getUserProgress per behaviour
MaxBatch == 3            \* evaluations per batch
MaxInfoRequests == 2     \* calls of getRecordingsInfo per behaviour
MaxInfoRecordings == 3   \* recordings in store for getRecordingsInfo
MaxWriteRequests == 2    \* direct calls of writeRecToFilesystem per behaviour
MaxSpeakerRequests == 2  \* direct speaker resolver calls per behaviour
MaxWorkerCalls == 2  \* resolver calls per worker, concurrent requests

----------------------------------------------------------------------------
(* Values *)

NULL == "NULL"       \* SQL NULL in a string column
None == "None"       \* Python None in a string-valued local
NoId == 0            \* Python None in an id-valued local (ids start at 1)

Restrict(f, K) == [k \in K |-> f[k]]
Max(S) == CHOOSE m \in S : \A x \in S : x <= m

\* A message is either plain text or the text of a JSON object (text = "").
Text(t) == [text |-> t, obj |-> << >>]
Json(o) == [text |-> "", obj |-> o]
\* json.loads(msg)[key] succeeds.
Loads(msg, key) == msg.text = "" /\ key \in DOMAIN msg.obj
Response(msg, statusCode) == [raised |-> "", msg |-> msg, statusCode |-> statusCode]
\* The handler ended by an exception that none of its except clauses catches.
Raised(exc) == [raised |-> exc, msg |-> Text(exc), statusCode |-> 0]
NoResponse == [raised |-> "", msg |-> Text(""), statusCode |-> 0]

\* Statement failures of a resolver call: its call-th insertGeneralData fails
\* at stmt; call 0 is the resolver's own lookup.
NoFail == [call |-> 0, stmt |-> "none"]
FailAt(fail, n) == IF fail.call = n THEN fail.stmt ELSE "none"
Fails(n) == {NoFail, [call |-> 0, stmt |-> "lookup"]}
              \cup [call : 1..n, stmt : {"insert", "select"}]

\* Documents of direct resolver calls: any subset of the keys.
UserAgents == {"ua1", "ua2"}
DeviceImeis == {"", "imei1", "imei2"}
DeviceIds == {1, 2}
DeviceDocs ==
    { Restrict(full, K) :
        full \in [userAgent : UserAgents, imei : DeviceImeis, deviceId : DeviceIds,
                  bogus : {"x"}],
        K \in SUBSET {"userAgent", "imei", "deviceId", "bogus"} }

InstructorDocIds == {1, 2, 3}
InstructorDocs ==
    { Restrict(full, K) :
        full \in [id : InstructorDocIds, name : {"ins", "sub"}, email : {"e"},
                  bogus : {"x"}],
        K \in SUBSET {"id", "name", "email", "bogus"} }

\* Documents of direct calls of insertGeneralData: keys of several entities, a
\* column that no allow-list holds (id), and a null value.
\* The device ids of the sessions that getRecordingCount counts over.
CountDeviceIds == {1, 2}
\* The token ids of the recordings in store, for getFromSet.
SetTokenIds == {1, 2}
\* Arguments of processEvaluation and getUserProgress.  The elements of a
\* batch: two evaluations of recordings in store, one without the key grade,
\* one of a recording that is not in store, and a number.
Evaluation(evaluator, sessionId, name) ==
    [object |-> TRUE,
     data |-> [evaluator |-> evaluator, sessionId |-> sessionId,
               recordingFilename |-> <<"r", name, ".wav">>, grade |-> 2,
               comments |-> "c", skipped |-> FALSE]]
Evaluations ==
    {Evaluation("eve", 1, "a"), Evaluation("dan", 2, "a"), Evaluation("eve", 9, "a"),
     [object |-> TRUE, data |-> [evaluator |-> "eve", sessionId |-> 1,
                                 recordingFilename |-> <<"r", "a", ".wav">>]],
     [object |-> FALSE, data |-> << >>]}
EvaluationBatches ==
    {[malformed |-> TRUE, list |-> << >>]}
        \cup { [malformed |-> FALSE, list |-> l] :
                  l \in UNION { [1..n -> Evaluations] : n \in 0..MaxBatch } }
EvalSets == {"set1", "Random"}
Evaluators == {"eve", "dan"}
EvalFails(n) == {NoFail} \cup [call : 1..n, stmt : {"select", "insert"}]
\* The session ids of the recordings in store, for getRecordingsInfo.
InfoSessionIds == {1, 2}
InsertNames == {"device", "instructor", "speaker"}
InsertDocs ==
    { Restrict(full, K) :
        full \in [userAgent : {"ua1"}, imei : {"imei1", NULL}, name : {"ann"},
                  id : {7}],
        K \in SUBSET {"userAgent", "imei", "name", "id"} }

Names == {"ann", "bob"}
SpeakerImeis == {"imei1"}
SpeakerIds == {1}
ExtraKeys == <<"sex", "age">>
ExtraValues == {"f"}
SpeakerDocs ==
    { Restrict(full, K) :
        full \in [name : Names, deviceImei : SpeakerImeis, speakerId : SpeakerIds,
                  sex : ExtraValues, age : {"30"}],
        K \in SUBSET {"name", "deviceImei", "speakerId", "sex", "age"} }

\* Documents of a submission: one that names a stable identity and one that
\* the resolver rejects.
SessionSpeakerDocs == {[name |-> "ann", deviceImei |-> "imei1", sex |-> "f"], << >>}
SessionDeviceDocs ==
    {[userAgent |-> "ua1", imei |-> "imei1"], [userAgent |-> "ua1", bogus |-> "x"]}
InstructorIds == {1, 2}
SessionFields == [location : {"loc"}, start : {1}, end : {1, 2}, comments : {"c"}]
Envelopes == {"malformed", "list", "notype", "wrongtype", "session"}
\* A file name is a sequence of pieces, so that '.wav' can be found in it.
RecFileNames == <<<<"a", ".wav">>, <<"b", ".wav">>, <<"c", ".wav">>>>
\* The uploaded files of a submission carry distinct names.
RecordingsArgs == { SubSeq(RecFileNames, 1, n) : n \in 0..MaxRecs }
\* An entry of recordingsInfo.  The empty entry also stands for a missing
\* entry and for a missing recordingsInfo: all raise KeyError.
RecEntries ==
    {<< >>, [tokenId |-> 1], [tokenId |-> 2], [tokenId |-> 2, tokenText |-> "hello"]}

----------------------------------------------------------------------------
(* The relational store *)

Tables == {"device", "speaker", "speaker_info", "instructor", "session",
           "recording", "evaluation_sets", "evaluation"}

\* Rows of table token; the handler never writes the table.
token == {[id |-> 1, inputToken |-> "hello", valid |-> TRUE]}

EmptyTx == [ins |-> [t \in Tables |-> {}], upd |-> {}]

\* An update that sets start along with end.
setStartAndEnd(row, end) == [row EXCEPT !.start = end, !.end = end]

\* SET end = %s: the only column that the statement assigns.
setEnd(row, end) == [row EXCEPT !.end = end]

\* UPDATE session SET end = e WHERE id = i, for every <<i, e>> of upd.
ApplyUpd(rows, upd) ==
    { IF \E u \in upd : u[1] = r.id
        THEN setEnd(r, (CHOOSE u \in upd : u[1] = r.id)[2])
        ELSE r : r \in rows }

\* What a SELECT of the connection sees: committed rows and its own writes.
Visible(st, table) ==
    IF table = "session"
      THEN ApplyUpd(st.db[table] \cup st.tx.ins[table], st.tx.upd)
      ELSE st.db[table] \cup st.tx.ins[table]

\* connection.commit()
Commit(st) ==
    [st EXCEPT !.db = [t \in Tables |-> Visible(st, t)], !.tx = EmptyTx]

\* INSERT: the row is written in the connection's transaction and consumes
\* an auto-increment id.
Insert(st, table, row) ==
    [st EXCEPT !.tx.ins[table] = @ \cup {[row EXCEPT !.id = st.autoinc[table]]},
               !.autoinc[table] = @ + 1]

\* cursor.fetchone() on a SELECT without ORDER BY: the row of lowest id (the
\* primary-key scan order).  The caller tests for the empty result.
fetchone(rows) == CHOOSE r \in rows : \A q \in rows : r.id <= q.id

DbError == Response(Text("Database error."), 500)

allowedColumnNames ==
    [device |-> {"userAgent", "imei"},
     instructor |-> {"name", "email", "phone", "address"},
     speaker |-> {"name", "deviceImei"},
     speaker_info |-> {"speakerId", "s_key", "s_value"}]

\* Columns that hold numbers; the others hold strings or NULL.
IntColumns == {"id", "speakerId"}
\* column = value in a WHERE clause: never true of NULL.
SqlEq(column, a, b) ==
    IF column \in IntColumns THEN a = b ELSE a /= NULL /\ b /= NULL /\ a = b

\* The same test, were it made against the lists of all entities together.
unallowedAnywhere(name, data) ==
    { key \in DOMAIN data :
        \A n \in DOMAIN allowedColumnNames : key \notin allowedColumnNames[n] }
\* The keys of data that the allow-list of name does not hold.
unallowed(name, data) ==
    { key \in DOMAIN data : key \notin allowedColumnNames[name] }

insertGeneralData(name, data, table, fail, st) ==
    IF unallowed(name, data) /= {}
      THEN [res |-> Response(Text(name \o " data not on correct format, aborting."), 400),
            st |-> st]
    \* a key that is no column of the table makes the INSERT fail
    ELSE IF fail = "insert" \/ ~(DOMAIN data \subseteq allowedColumnNames[table] \cup {"id"})
      THEN [res |-> DbError, st |-> st]
    ELSE
      LET row == [c \in allowedColumnNames[table] \cup {"id"} |->
                    IF c = "id" THEN NoId
                    ELSE IF c \in DOMAIN data THEN data[c] ELSE NULL]
          st1 == Insert(st, table, row)
          dataIds == { r.id : r \in { q \in Visible(st1, table) :
                                        \A k \in DOMAIN data : SqlEq(k, q[k], data[k]) } }
      IN  \* an empty column list makes the re-select a syntax error
          IF fail = "select" \/ DOMAIN data = {}
            THEN [res |-> DbError, st |-> st1]
          \* max() of no id raises ValueError
          ELSE IF dataIds = {}
            THEN [res |-> Raised("ValueError"), st |-> st1]
            ELSE [res |-> Response(Json((name \o "Id") :> Max(dataIds)), 200),
                  st |-> Commit(st1)]

\* The loop of insertSpeakerData over speakerInfo, from its j-th pair on.
RECURSIVE insertSpeakerInfo(_, _, _, _, _)
insertSpeakerInfo(id, speakerInfo, j, fail, st) ==
    IF j > Len(speakerInfo) THEN st
    ELSE insertSpeakerInfo(id, speakerInfo, j + 1, fail,
            insertGeneralData("speaker_info",
                              [speakerId |-> id, s_key |-> speakerInfo[j][1],
                               s_value |-> speakerInfo[j][2]],
                              "speaker_info", FailAt(fail, 1 + j), st).st)

insertSpeakerData(speakerData, speakerInfo, fail, st) ==
    LET r == insertGeneralData("speaker", speakerData, "speaker", FailAt(fail, 1), st)
    IN  IF Loads(r.res.msg, "speakerId")
          THEN [res |-> r.res,
                st |-> insertSpeakerInfo(r.res.msg.obj.speakerId, speakerInfo, 1,
                                         fail, r.st)]
          ELSE r

\* What the lookups of a resolver decide: "reject" (the document is not on
\* the correct format), "dberror" (the lookup raised), "found" (return id) or
\* "insert" (create a new row).
Decision(act, id) == [act |-> act, id |-> id]

\* The same SELECT, were it to compare the userAgent too.
deviceByImeiAndAgent(deviceData, st) ==
    { r \in Visible(st, "device") :
        r.imei = deviceData.imei /\ r.userAgent = deviceData.userAgent }
\* SELECT id FROM device WHERE imei = deviceImei
deviceByImei(deviceData, st) ==
    { r \in Visible(st, "device") : r.imei = deviceData.imei }

\* The same SELECT, were it to lack its WHERE clause.
deviceOfAnyId(deviceData, st) == Visible(st, "device")
\* SELECT userAgent FROM device WHERE id = deviceId
deviceById(deviceData, st) ==
    { r \in Visible(st, "device") : r.id = deviceData.deviceId }

\* processDeviceData up to its branch into return or insert.
deviceLookup(deviceData, fail, st) ==
    IF "userAgent" \notin DOMAIN deviceData THEN Decision("reject", NoId)
    ELSE
      LET byImei == deviceByImei(deviceData, st)
          byId == deviceById(deviceData, st)
      IN  IF "imei" \in DOMAIN deviceData /\ deviceData.imei /= ""
            THEN IF FailAt(fail, 0) = "lookup" THEN Decision("dberror", NoId)
                 ELSE IF byImei = {} THEN Decision("insert", NoId)
                 ELSE Decision("found", fetchone(byImei).id)
          ELSE IF "deviceId" \in DOMAIN deviceData
            THEN IF FailAt(fail, 0) = "lookup" THEN Decision("dberror", NoId)
                 ELSE IF byId = {} THEN Decision("insert", NoId)
                 ELSE IF fetchone(byId).userAgent = deviceData.userAgent
                   THEN Decision("found", deviceData.deviceId)
                 ELSE Decision("insert", NoId)
          ELSE Decision("insert", NoId)

\* processDeviceData from that branch on.
deviceResult(d, deviceData, fail, st) ==
    CASE d.act = "reject" ->
           [res |-> Response(Text("Device data not on correct format, aborting."), 400),
            st |-> st]
      [] d.act = "dberror" -> [res |-> DbError, st |-> st]
      [] d.act = "found" -> [res |-> Response(Json("deviceId" :> d.id), 200), st |-> st]
      [] d.act = "insert" ->
           insertGeneralData("device",
                             Restrict(deviceData, DOMAIN deviceData \ {"deviceId"}),
                             "device", FailAt(fail, 1), st)

processDeviceData(deviceData, fail, st) ==
    deviceResult(deviceLookup(deviceData, fail, st), deviceData, fail, st)

\* The same SELECT, were it to find no row.
speakerNotFound(speakerData, st) == {}
\* SELECT id FROM speaker WHERE name = name AND deviceImei = deviceImei
speakerByNameImei(speakerData, st) ==
    { r \in Visible(st, "speaker") :
        r.name = speakerData.name /\ r.deviceImei = speakerData.deviceImei }

\* processSpeakerData up to its branch into return or insert.
speakerLookup(speakerData, fail, st) ==
    IF "name" \notin DOMAIN speakerData THEN Decision("reject", NoId)
    ELSE
      LET byNameImei == speakerByNameImei(speakerData, st)
          byId == { r \in Visible(st, "speaker") : r.id = speakerData.speakerId }
      IN  IF "deviceImei" \in DOMAIN speakerData /\ speakerData.deviceImei /= ""
            THEN IF FailAt(fail, 0) = "lookup" THEN Decision("dberror", NoId)
                 ELSE IF byNameImei = {} THEN Decision("insert", NoId)
                 ELSE Decision("found", fetchone(byNameImei).id)
          ELSE IF "speakerId" \in DOMAIN speakerData
            THEN IF FailAt(fail, 0) = "lookup" THEN Decision("dberror", NoId)
                 ELSE IF byId = {} THEN Decision("insert", NoId)
                 ELSE IF fetchone(byId).name = speakerData.name
                   THEN Decision("found", speakerData.speakerId)
                 ELSE Decision("insert", NoId)
          ELSE Decision("insert", NoId)

\* The pairs of speakerData other than name, deviceImei and speakerId, in the
\* order of the document.
speakerInfoOf(speakerData) ==
    SelectSeq([j \in 1..Len(ExtraKeys) |->
                 <<ExtraKeys[j],
                   IF ExtraKeys[j] \in DOMAIN speakerData
                     THEN speakerData[ExtraKeys[j]] ELSE NULL>>],
              LAMBDA kv : kv[1] \in DOMAIN speakerData)

\* The same return, were the pairs of the document stored before it.
foundSpeakerWithInfo(d, speakerData, fail, st) ==
    [res |-> Response(Json("speakerId" :> d.id), 200),
     st |-> insertSpeakerInfo(d.id, speakerInfoOf(speakerData), 1, fail, st)]
\* The speaker exists: return its id.
foundSpeaker(d, speakerData, fail, st) ==
    [res |-> Response(Json("speakerId" :> d.id), 200), st |-> st]

\* processSpeakerData from that branch on.
speakerResult(d, speakerData, fail, st) ==
    LET hasImei == "deviceImei" \in DOMAIN speakerData /\ speakerData.deviceImei /= ""
        speakerInfo == speakerInfoOf(speakerData)
        newSpeakerData ==
            IF hasImei
              THEN [name |-> speakerData.name, deviceImei |-> speakerData.deviceImei]
              ELSE [name |-> speakerData.name]
    IN  CASE d.act = "reject" ->
               [res |-> Response(Text("Speaker data not on correct format, aborting."), 400),
                st |-> st]
          [] d.act = "dberror" -> [res |-> DbError, st |-> st]
          [] d.act = "found" -> foundSpeaker(d, speakerData, fail, st)
          [] d.act = "insert" -> insertSpeakerData(newSpeakerData, speakerInfo, fail, st)

processSpeakerData(speakerData, fail, st) ==
    speakerResult(speakerLookup(speakerData, fail, st), speakerData, fail, st)

\* The branch of a missing id, were it to fall back to an insert as the other resolvers.
instructorInsertedInstead(instructorData, fail, st) ==
    insertGeneralData("instructor",
                      Restrict(instructorData, DOMAIN instructorData \ {"id"}),
                      "instructor", FailAt(fail, 1), st)

\* processInstructorData when no row has the id of the document.
instructorNotFound(instructorData, fail, st) ==
    [res |-> Response(Text("No instructor with that id."), 400), st |-> st]

processInstructorData(instructorData, fail, st) ==
    LET byId == { r \in Visible(st, "instructor") : r.id = instructorData.id }
    IN  IF "id" \in DOMAIN instructorData
          THEN IF FailAt(fail, 0) = "lookup" THEN [res |-> DbError, st |-> st]
               ELSE IF byId = {} THEN instructorNotFound(instructorData, fail, st)
               ELSE [res |-> Response(Json("instructorId" :> fetchone(byId).id), 200),
                     st |-> st]
          ELSE insertGeneralData("instructor", instructorData, "instructor",
                                 FailAt(fail, 1), st)

\* min(a, b), which the handler does not take.
smaller(a, b) == IF a <= b THEN a ELSE b

\* max(int(cntByName), int(cntById))
larger(a, b) == IF a >= b THEN a ELSE b

\* failed: one of the two count queries raises MySQLError.
getRecordingCount(name, sId, dId, failed, st) ==
    LET recs == Visible(st, "recording")
        cntByName ==
            Cardinality({ r \in recs :
                /\ r.speakerId \in { s.id : s \in { q \in Visible(st, "speaker") : q.name = name } }
                /\ r.sessionId \in { s.id : s \in { q \in Visible(st, "session") : q.deviceId = dId } } })
        cntById == Cardinality({ r \in recs : r.speakerId = sId })
    IN  IF failed THEN -1
        ELSE larger(cntByName, cntById)

----------------------------------------------------------------------------
(* getFromSet *)

\* The rows of a result in ascending order of their id.
RECURSIVE OrderById(_)
OrderById(rows) ==
    IF rows = {} THEN << >>
    ELSE LET first == CHOOSE r \in rows : \A q \in rows : r.id <= q.id
         IN  <<first>> \o OrderById(rows \ {first})

\* The first elements of s, a slice that takes no account of progress.
sliceFromStart(s, a, b) ==
    [j \in 1..(IF b - a < Len(s) THEN b - a ELSE Len(s)) |-> s[j]]

\* s[a:b] of Python, for a and b that are not negative.
slice(s, a, b) ==
    LET from == IF a < Len(s) THEN a ELSE Len(s)
        to == IF b < Len(s) THEN b ELSE Len(s)
    IN  [j \in 1..(to - from) |-> s[from + j]]

\* recIds with nothing removed.
allRecIds(recIds) == recIds

\* recIds[1:], which removes the first row fetched: the placeholder recording.
withoutPlaceholder(recIds) == SubSeq(recIds, 2, Len(recIds))

\* [RECSURL/session_<sesId>/<filename>, prompt] for a row of the join of
\* recording and token.
linkAndPrompt(rec, tok) ==
    [link |-> <<"RECSURL", "session_" \o ToString(rec.sessionId), rec.filename>>,
     prompt |-> tok.inputToken]

\* SELECT ... FROM recording, token WHERE recording.tokenId = token.id AND
\* recording.id IN randIds: a recording without its token row is in no row.
randomRows(randIds, st) ==
    LET recs == { r \in Visible(st, "recording") :
                    r.id \in randIds /\ \E t \in token : t.id = r.tokenId }
        ordered == OrderById(recs)
    IN  [j \in 1..Len(ordered) |->
            linkAndPrompt(ordered[j],
                          CHOOSE t \in token : t.id = ordered[j].tokenId)]

\* SELECT ... FROM recording, token, evaluation_sets WHERE ... AND eval_set =
\* %s ORDER BY evaluation_sets.id ASC: one row for every membership row whose
\* recording and whose recording's token exist.
setRows(eval_set, st) ==
    LET recs == Visible(st, "recording")
        members == { m \in Visible(st, "evaluation_sets") :
                        /\ m.eval_set = eval_set
                        /\ \E r \in recs : r.id = m.recordingId
                             /\ \E t \in token : t.id = r.tokenId }
        ordered == OrderById(members)
        recOf(m) == CHOOSE r \in recs : r.id = m.recordingId
    IN  [j \in 1..Len(ordered) |->
            linkAndPrompt(recOf(ordered[j]),
                          CHOOSE t \in token : t.id = recOf(ordered[j]).tokenId)]

\* The choices of random.sample(recIds, count); the empty choice stands for
\* the call that raises ValueError.
Samples(recIds, count) ==
    IF count > Len(recIds) THEN {{}}
    ELSE { S \in SUBSET { recIds[j] : j \in DOMAIN recIds } : Cardinality(S) = count }

\* recIds of the 'Random' branch, in the order of the primary key.
randomRecIds(st) ==
    LET ordered == OrderById(Visible(st, "recording"))
    IN  withoutPlaceholder([j \in 1..Len(ordered) |-> ordered[j].id])

\* failed: a statement raises MySQLError.  randIds: what random.sample gave.
getFromSet(eval_set, progress, count, randIds, failed, st) ==
    LET broken == Response(Text("Error grabbing from set."), 500)
        recIds == randomRecIds(st)
        partialSet == IF eval_set = "Random" THEN randomRows(randIds, st)
                      ELSE setRows(eval_set, st)
    IN  IF failed THEN broken
        ELSE IF eval_set = "Random" /\ count > Len(recIds) THEN Raised("ValueError")
        ELSE IF eval_set = "Random" /\ randIds = {} THEN broken
        ELSE IF partialSet /= << >> /\ eval_set /= "Random"
          THEN Response(Json(slice(partialSet, progress, progress + count)), 200)
        ELSE IF partialSet /= << >> THEN Response(Json(partialSet), 200)
        ELSE Response(Text("No set by that name in database."), 404)

----------------------------------------------------------------------------
(* processEvaluation and getUserProgress *)

evaluationKeys ==
    {"evaluator", "sessionId", "recordingFilename", "grade", "comments", "skipped"}

\* The rows that the SELECT of an evaluation finds: by session and file name
\* among all recordings for 'Random', else among the recordings of eval_set.
evaluatedRecordings(eval_set, sessionId, recordingFilename, st) ==
    { r \in Visible(st, "recording") :
        /\ r.sessionId = sessionId
        /\ r.filename = recordingFilename
        /\ eval_set /= "Random" =>
              \E m \in Visible(st, "evaluation_sets") :
                  m.recordingId = r.id /\ m.eval_set = eval_set }

\* The response, were the error of every evaluation but the first forgotten.
firstError(error, new) == IF error.msg = "" THEN new ELSE error

\* error and errorStatusCode are overwritten by every evaluation that fails.
lastError(error, new) == new

\* The body of the loop for one evaluation.  evaluation.object: the element
\* of the list is a JSON object with the keys evaluation.data; subscripting
\* any other element raises TypeError, which no except clause catches.
\* stmt: the statement of this evaluation that raises MySQLError.
evaluationStep(eval_set, evaluation, stmt, acc) ==
    LET data == evaluation.data
        failed(msg, code) ==
            [acc EXCEPT !.error = lastError(acc.error, [msg |-> msg, statusCode |-> code])]
        found == evaluatedRecordings(eval_set, data.sessionId, data.recordingFilename,
                                     acc.st)
        row == [id |-> NoId, recordingId |-> fetchone(found).id, eval_set |-> eval_set,
                evaluator |-> data.evaluator, grade |-> data.grade,
                comments |-> data.comments, skipped |-> data.skipped]
    IN  IF acc.raised /= "" THEN acc
        ELSE IF ~evaluation.object THEN [acc EXCEPT !.raised = "TypeError"]
        ELSE IF ~(evaluationKeys \subseteq DOMAIN data)
          THEN failed("Some evaluation data not on correct format, wrong key.", 400)
        ELSE IF stmt = "select"
          THEN failed("Error inserting some evaluation into database.", 500)
        ELSE IF found = {}
          THEN failed("Could not find a recording with some data.", 400)
        ELSE IF stmt = "insert"
          THEN failed("Error inserting some evaluation into database.", 500)
        ELSE [acc EXCEPT !.st = Insert(acc.st, "evaluation", row)]

RECURSIVE evaluationLoop(_, _, _, _, _)
evaluationLoop(eval_set, jsonDecoded, j, fail, acc) ==
    IF j > Len(jsonDecoded) THEN acc
    ELSE evaluationLoop(eval_set, jsonDecoded, j + 1, fail,
            evaluationStep(eval_set, jsonDecoded[j], FailAt(fail, j), acc))

\* data.malformed: json.loads raises; else data.list is the decoded list.
processEvaluation(eval_set, data, fail, st) ==
    LET acc == evaluationLoop(eval_set, data.list, 1, fail,
                   [st |-> st, error |-> [msg |-> "", statusCode |-> 500], raised |-> ""])
    IN  IF data.malformed
          THEN [st |-> st,
                res |-> Response(Text("Evaluation data not on correct format."), 400)]
        ELSE IF acc.raised /= "" THEN [st |-> acc.st, res |-> Raised(acc.raised)]
        ELSE [st |-> Commit(acc.st),
              res |-> IF acc.error.msg /= ""
                        THEN Response(Text(acc.error.msg), acc.error.statusCode)
                        ELSE Response(Text("Successfully processed evaluation."), 200)]

\* The number of recordings that the rows are about.
countOfRecordings(rows) == Cardinality({ e.recordingId : e \in rows })

\* COUNT(*)
countOfRows(rows) == Cardinality(rows)

\* failed: the query raises MySQLError.
getUserProgress(user, eval_set, failed, st) ==
    IF failed THEN Response(Text("Error getting user progress."), 500)
    ELSE Response(Json("progress" :>
            countOfRows({ e \in Visible(st, "evaluation") :
                            e.eval_set = eval_set /\ e.evaluator = user })), 200)

----------------------------------------------------------------------------
(* getRecordingsInfo *)

\* cursor.fetchmany(size=count) after ORDER BY recording.id ASC: the first
\* size rows of the result.
fetchmany(rows, size) ==
    IF size >= Len(rows) THEN rows ELSE SubSeq(rows, 1, size)

\* count: << >> for None, else <<n>> with a positive n.  failed: the query
\* raises MySQLError, which the handler raises again.
getRecordingsInfo(sessionId, count, failed, st) ==
    LET joined == { r \in Visible(st, "recording") :
                      r.sessionId = sessionId /\ \E t \in token : t.id = r.tokenId }
        rows == IF count /= << >> THEN fetchmany(OrderById(joined), count[1])
                ELSE OrderById(joined)
    IN  IF failed THEN Raised("MySQLError")
        ELSE Response(Json([j \in 1..Len(rows) |->
                [recId |-> rows[j].id,
                 recPath |-> <<"recordings_path", "session_" \o ToString(sessionId),
                               rows[j].filename>>,
                 token |-> (CHOOSE t \in token : t.id = rows[j].tokenId).inputToken,
                 tokenId |-> rows[j].tokenId]]), 200)

----------------------------------------------------------------------------
(* The recording store *)

\* util.filename: neutralises the pieces of a name that are reserved in a path.
filename(name) ==
    [j \in DOMAIN name |-> IF name[j] \in {"/", ".."} THEN "-" ELSE name[j]]

\* str.replace('.wav', '.txt') on a name given as pieces.
ReplaceWav(name) ==
    [j \in DOMAIN name |-> IF name[j] = ".wav" THEN ".txt" ELSE name[j]]

\* A directory name that takes no account of the session id.
SessionDirUnknown(sId) == "session_unknown"

\* 'session_{}'.format(sessionId), after `if not sessionId`
SessionDir(sId) ==
    IF sId = NoId THEN "session_unknown" ELSE "session_" \o ToString(sId)

Audio == [kind |-> "audio", text |-> ""]
Transcript(t) == [kind |-> "text", text |-> t]

\* fsfail: "none", "wav" (makedirs or rec.save raises) or "txt" (open raises).
writeRecToFilesystem(rec, tok, sId, spName, lost, fsfail, files) ==
    LET text == IF tok = None \/ tok = "" THEN "No prompt." ELSE tok
        spk == IF spName = None \/ spName = "" THEN "unknown" ELSE spName
        recName == filename(<<spk>>) \o <<"_">> \o filename(rec)
        wavePath == [lost |-> lost, dir |-> SessionDir(sId), name |-> recName]
        txtPath == [wavePath EXCEPT !.name = ReplaceWav(recName)]
        saved == (wavePath :> Audio) @@ files
    IN  [recName |-> recName,
         wavePath |-> wavePath,
         ok |-> fsfail = "none",
         fs |-> IF fsfail = "wav" THEN files
                ELSE IF fsfail = "txt" THEN saved
                ELSE (txtPath :> Transcript(text)) @@ saved]

----------------------------------------------------------------------------
(* processSessionData *)

\* The local variables of processSessionData as its first lines bind them.
\* Besides them: curBound tells whether the local cur is assigned, idx counts
\* the completed loop iterations, written lists the paths that
\* writeRecToFilesystem saved audio to, and speakerStatus / deviceStatus
\* hold the statusCode of what processSpeakerData / processDeviceData
\* returned (0: not called).
InitLocal ==
    [recordings |-> << >>, jsonDecoded |-> None,
     error |-> "", errorStatusCode |-> 400, speakerName |-> None,
     speakerId |-> NoId, instructorId |-> NoId, deviceId |-> NoId,
     sessionId |-> NoId, location |-> None, start |-> NoId, end |-> NoId,
     comments |-> None, curBound |-> FALSE, idx |-> 0, written |-> << >>,
     speakerStatus |-> 0, deviceStatus |-> 0]

FormatError == "Session data not on correct format."
SessionDbError == "Error inserting sessionInfo into database."

\* json.loads(jsonData) and the test of jsonDecoded['type'].  envelope:
\* jsonData is not JSON ("malformed"), is JSON but no object ("list"), an
\* object without 'type' or 'data' ("notype"), of another type
\* ("wrongtype"), or a session envelope ("session").
parseStep(recs, envelope) ==
    [InitLocal EXCEPT
        !.recordings = recs,
        !.jsonDecoded = CASE envelope = "malformed" -> None
                          [] envelope = "list" -> "list"
                          [] envelope = "session" -> "data"
                          [] OTHER -> "envelope",
        !.error = CASE envelope = "session" -> ""
                    [] envelope = "wrongtype" -> "Wrong type of data."
                    [] OTHER -> FormatError]

\* jsonDecoded['speakerInfo']['name'] and the call of processSpeakerData.  A
\* missing speakerInfo behaves as a document without name.
speakerStep(speakerData, fail, loc, st) ==
    LET r == processSpeakerData(speakerData, fail, st)
        ok == Loads(r.res.msg, "speakerId")
    IN  IF "name" \notin DOMAIN speakerData
          THEN [st |-> st, next |-> "recordings",
                local |-> [loc EXCEPT !.error = FormatError]]
          ELSE [st |-> r.st, next |-> IF ok THEN "device" ELSE "recordings",
                local |-> [loc EXCEPT
                    !.speakerName = speakerData.name,
                    !.speakerStatus = r.res.statusCode,
                    !.speakerId = IF ok THEN r.res.msg.obj.speakerId ELSE @,
                    !.error = IF ok THEN @ ELSE FormatError]]

\* jsonDecoded['instructorId'] (iId = NoId: the key is missing) and the call
\* of processDeviceData.  A missing deviceInfo behaves as a document without
\* userAgent.
deviceStep(iId, deviceData, fail, loc, st) ==
    LET r == processDeviceData(deviceData, fail, st)
        ok == Loads(r.res.msg, "deviceId")
    IN  IF iId = NoId
          THEN [st |-> st, next |-> "recordings",
                local |-> [loc EXCEPT !.error = FormatError]]
          ELSE [st |-> r.st, next |-> IF ok THEN "session" ELSE "recordings",
                local |-> [loc EXCEPT
                    !.instructorId = iId,
                    !.deviceStatus = r.res.statusCode,
                    !.deviceId = IF ok THEN r.res.msg.obj.deviceId ELSE @,
                    !.error = IF ok THEN @ ELSE FormatError]]

FieldOrder == <<"location", "start", "end", "comments">>
Position(k) == CHOOSE j \in 1..Len(FieldOrder) : FieldOrder[j] = k

\* The session's identity key, as the statements of the upsert bind it.
sessionKey(f, loc) ==
    [speakerId |-> loc.speakerId, instructorId |-> loc.instructorId,
     deviceId |-> loc.deviceId, location |-> f.location, start |-> f.start]

\* The same SELECT, were it to compare end too.
sessionByKeyAndEnd(f, loc, st) ==
    { r \in Visible(st, "session") :
        (\A k \in DOMAIN sessionKey(f, loc) : r[k] = sessionKey(f, loc)[k])
        /\ r.end = f.end }
\* SELECT id FROM session WHERE speakerId = .. AND start = ..
sessionByKey(f, loc, st) ==
    { r \in Visible(st, "session") :
        \A k \in DOMAIN sessionKey(f, loc) : r[k] = sessionKey(f, loc)[k] }

\* jsonDecoded['location'] ... jsonDecoded['comments'] (missing: the first of
\* these keys that the data lacks, or "none") and the session upsert.  fail:
\* the statement of the upsert that raises MySQLError, or "none".
upsertSession(f, missing, fail, loc, st) ==
    LET read(k, old) == IF missing = "none" \/ Position(k) < Position(missing)
                          THEN f[k] ELSE old
        found == sessionByKey(f, loc, st)
        row == [id |-> NoId, speakerId |-> loc.speakerId,
                instructorId |-> loc.instructorId, deviceId |-> loc.deviceId,
                location |-> f.location, start |-> f.start, end |-> f.end,
                comments |-> f.comments]
        st1 == Insert(st, "session", row)
        reselect == { r \in sessionByKey(f, loc, st1) : r.end = f.end }
        st2 == [st EXCEPT !.tx.upd = {<<fetchone(found).id, f.end>>}]
        got == [loc EXCEPT !.location = read("location", @),
                           !.start = read("start", @),
                           !.end = read("end", @),
                           !.comments = read("comments", @)]
        bound == [got EXCEPT !.curBound = TRUE]
        failed == [bound EXCEPT !.error = SessionDbError, !.errorStatusCode = 500]
    IN  IF missing /= "none"
          THEN [st |-> st, local |-> [got EXCEPT !.error = FormatError]]
        ELSE IF fail = "select" \/ (found = {} /\ fail = "insert")
          THEN [st |-> st, local |-> failed]
        ELSE IF found = {} /\ fail = "reselect"
          THEN [st |-> st1, local |-> failed]
        ELSE IF found = {}
          THEN [st |-> st1, local |-> [bound EXCEPT !.sessionId = fetchone(reselect).id]]
        ELSE IF fail = "update"
          THEN [st |-> st, local |-> [failed EXCEPT !.sessionId = fetchone(found).id]]
        ELSE [st |-> st2, local |-> [bound EXCEPT !.sessionId = fetchone(found).id]]

\* The same test, were error valid for one recording only.
tokenErrorOfThisRecording(inline, tokenRows, error) ==
    IF ~inline /\ tokenRows = {} THEN "No token with supplied id." ELSE ""

\* error after the token of a recording was looked up: set when fetchone()
\* gave None, and never cleared.
tokenError(inline, tokenRows, error) ==
    IF ~inline /\ tokenRows = {} THEN "No token with supplied id." ELSE error

\* A recording written under lost in any case.
lostAlways(error) == TRUE

\* lost=False `if not error`, else lost=True
lostIf(error) == error /= ""

\* One iteration of the loop over recordings, for the file rec.  dbfail: the
\* statement that raises MySQLError ("token": the token lookup, "insert":
\* the recording insert); fsfail: see writeRecToFilesystem.  res is
\* NoResponse when the loop goes on.
recordingStep(entry, dbfail, fsfail, loc, st, files) ==
    LET rec == loc.recordings[loc.idx + 1]
        inline == "tokenText" \in DOMAIN entry
        tokenRows == { t \in token : t.id = entry.tokenId }
        tok == IF inline THEN entry.tokenText
               ELSE IF tokenRows = {} THEN None
               ELSE fetchone(tokenRows).inputToken
        err == tokenError(inline, tokenRows, loc.error)
        w == writeRecToFilesystem(rec, tok, loc.sessionId, loc.speakerName,
                                  lostIf(err), fsfail, files)
        row == [id |-> NoId, tokenId |-> entry.tokenId, speakerId |-> loc.speakerId,
                sessionId |-> loc.sessionId, filename |-> w.recName]
        seen == [loc EXCEPT !.error = err]
        saved == [seen EXCEPT !.written = Append(@, w.wavePath)]
        stop(r, l, f) == [st |-> st, local |-> l, fs |-> f, res |-> r]
    IN  IF loc.jsonDecoded \in {None, "list"}
          THEN stop(Raised("TypeError"), loc, files)
        ELSE IF "tokenId" \notin DOMAIN entry
          THEN stop(Response(Text("Missing recording info in session data."), 400),
                    loc, files)
        ELSE IF ~inline /\ ~loc.curBound
          THEN stop(Raised("UnboundLocalError"), loc, files)
        ELSE IF ~inline /\ dbfail = "token"
          THEN stop(Response(Text("Error adding recording to database."), 500),
                    loc, files)
        ELSE IF ~w.ok
          THEN stop(Response(Text("Error saving recordings to file."), 500),
                    IF fsfail = "txt" THEN saved ELSE seen, w.fs)
        ELSE IF err = "" /\ dbfail = "insert"
          THEN stop(Response(Text("Error adding recording to database."), 500),
                    saved, w.fs)
        ELSE [st |-> IF err = "" THEN Insert(st, "recording", row) ELSE st,
              local |-> [saved EXCEPT !.idx = @ + 1],
              fs |-> w.fs,
              res |-> NoResponse]

\* The same lines, were the commit not guarded by the test of error.
finishCommitting(failed, loc, st) ==
    [st |-> Commit(st),
     res |-> IF loc.error = ""
               THEN Response(Json([sessionId |-> loc.sessionId]), 200)
               ELSE Response(Text(loc.error), loc.errorStatusCode)]

\* A count of the rows that were committed before the call.
numRecsBefore(failed, loc, st) ==
    getRecordingCount(loc.speakerName, loc.speakerId, loc.deviceId, failed,
                      [st EXCEPT !.db = pre])

\* numRecs = self.getRecordingCount(speakerName, speakerId, deviceId)
numRecs(failed, loc, st) ==
    getRecordingCount(loc.speakerName, loc.speakerId, loc.deviceId, failed, st)

\* After the loop: commit and count, or leave the transaction uncommitted.
\* failed: getRecordingCount meets a MySQLError.
finish(failed, loc, st) ==
    IF loc.error = ""
      THEN [st |-> Commit(st),
            res |-> Response(Json([sessionId |-> loc.sessionId,
                                   deviceId |-> loc.deviceId,
                                   speakerId |-> loc.speakerId,
                                   recsDelivered |-> numRecs(failed, loc, Commit(st))]),
                             200)]
      ELSE [st |-> st, res |-> Response(Text(loc.error), loc.errorStatusCode)]

----------------------------------------------------------------------------
(* Requests, one at a time *)

St == [db |-> db, tx |-> tx, autoinc |-> autoinc]

\* The request ends: the response is returned (or the exception propagates)
\* and its connection is closed, which discards the uncommitted writes.
Return(st, r) ==
    /\ db' = st.db
    /\ autoinc' = st.autoinc
    /\ tx' = EmptyTx
    /\ resp' = r
    /\ pc' = "done"
    /\ UNCHANGED <<serial, proc>>

Continue(st, next) ==
    /\ db' = st.db
    /\ autoinc' = st.autoinc
    /\ tx' = st.tx
    /\ pc' = next
    /\ UNCHANGED <<resp, serial, proc>>

\* A direct call of processDeviceData.
DeviceRequest ==
    \E deviceData \in DeviceDocs, fail \in Fails(1) :
        LET r == processDeviceData(deviceData, fail, St)
        IN  /\ pc \in {"idle", "done"}
            /\ calls < MaxRequests
            /\ op' = "processDeviceData"
            /\ calls' = calls + 1
            /\ request' = deviceData
            /\ fault' = fail
            /\ pre' = db
            /\ Return(r.st, r.res)
            /\ UNCHANGED <<fs, local>>

\* A direct call of processSpeakerData.
SpeakerRequest ==
    \E speakerData \in SpeakerDocs :
      \E fail \in Fails(1 + Len(speakerInfoOf(speakerData))) :
        LET r == processSpeakerData(speakerData, fail, St)
        IN  /\ pc \in {"idle", "done"}
            /\ calls < MaxSpeakerRequests
            /\ op' = "processSpeakerData"
            /\ calls' = calls + 1
            /\ request' = speakerData
            /\ fault' = fail
            /\ pre' = db
            /\ Return(r.st, r.res)
            /\ UNCHANGED <<fs, local>>

\* A direct call of processInstructorData.
InstructorRequest ==
    \E instructorData \in InstructorDocs, fail \in Fails(1) :
        LET r == processInstructorData(instructorData, fail, St)
        IN  /\ pc \in {"idle", "done"}
            /\ calls < MaxRequests
            /\ op' = "processInstructorData"
            /\ calls' = calls + 1
            /\ request' = instructorData
            /\ fault' = fail
            /\ pre' = db
            /\ Return(r.st, r.res)
            /\ UNCHANGED <<fs, local>>

\* A direct call of insertGeneralData, with the table of the entity.
GeneralInsert ==
    \E name \in InsertNames, data \in InsertDocs, stmt \in {"none", "insert", "select"} :
        LET r == insertGeneralData(name, data, name, stmt, St)
        IN  /\ pc \in {"idle", "done"}
            /\ calls < MaxRequests
            /\ op' = "insertGeneralData"
            /\ calls' = calls + 1
            /\ request' = [name |-> name, data |-> data]
            /\ fault' = IF stmt = "none" THEN NoFail ELSE [call |-> 1, stmt |-> stmt]
            /\ pre' = db
            /\ Return(r.st, r.res)
            /\ UNCHANGED <<fs, local>>

\* A test of the recordings that lets every argument pass.
anyRecordings(recs) == FALSE

\* type(recordings)!=list or len(recordings)==0
noRecordings(recs) == Len(recs) = 0

\* processSessionData, from its entry to the test of jsonDecoded['type'].  A
\* recordings argument that is not a list behaves as the empty list.
SessionStart ==
    \E recs \in RecordingsArgs, envelope \in Envelopes :
        /\ pc \in {"idle", "done"}
        /\ calls < MaxCalls
        /\ op' = "processSessionData"
        /\ calls' = calls + 1
        /\ request' = << >>
        /\ pre' = db
        /\ UNCHANGED <<fs, fault>>
        /\ IF noRecordings(recs)
             THEN /\ Return(St, Response(Text("No recordings received, aborting."), 400))
                  /\ local' = InitLocal
             ELSE /\ Continue(St, IF envelope = "session" THEN "speaker" ELSE "recordings")
                  /\ local' = parseStep(recs, envelope)

SessionSpeaker ==
    \E speakerData \in SessionSpeakerDocs, fail \in Fails(1 + Len(ExtraKeys)) :
        LET s == speakerStep(speakerData, fail, local, St)
        IN  /\ pc = "speaker"
            /\ Continue(s.st, s.next)
            /\ local' = s.local
            /\ UNCHANGED <<fs, op, calls, request, pre, fault>>

SessionDevice ==
    \E iId \in InstructorIds \cup {NoId}, deviceData \in SessionDeviceDocs,
       fail \in Fails(1) :
        LET s == deviceStep(iId, deviceData, fail, local, St)
        IN  /\ pc = "device"
            /\ Continue(s.st, s.next)
            /\ local' = s.local
            /\ UNCHANGED <<fs, op, calls, request, pre, fault>>

SessionUpsert ==
    \E f \in SessionFields, missing \in {"none", "comments"},
       fail \in {"none", "select", "insert", "reselect", "update"} :
        LET s == upsertSession(f, missing, fail, local, St)
        IN  /\ pc = "session"
            /\ Continue(s.st, "recordings")
            /\ local' = s.local
            /\ UNCHANGED <<fs, op, calls, request, pre, fault>>

SessionRecording ==
    \E entry \in RecEntries, dbfail \in {"none", "token", "insert"},
       fsfail \in {"none", "wav", "txt"} :
        LET s == recordingStep(entry, dbfail, fsfail, local, St, fs)
        IN  /\ pc = "recordings"
            /\ local.idx < Len(local.recordings)
            /\ IF s.res = NoResponse
                 THEN Continue(s.st, "recordings")
                 ELSE Return(s.st, s.res)
            /\ local' = s.local
            /\ fs' = s.fs
            /\ UNCHANGED <<op, calls, request, pre, fault>>

SessionFinish ==
    \E failed \in BOOLEAN :
        LET s == finish(failed, local, St)
        IN  /\ pc = "recordings"
            /\ local.idx = Len(local.recordings)
            /\ Return(s.st, s.res)
            /\ UNCHANGED <<fs, op, calls, request, local, pre, fault>>

InitDb ==
    [t \in Tables |->
        IF t = "instructor"
          THEN {[id |-> 1, name |-> "ins", email |-> "e", phone |-> "p", address |-> "a"]}
          ELSE {}]

Workers == {1, 2}
IdleProc == [pc |-> "idle", kind |-> "none", doc |-> << >>, d |-> Decision("none", NoId),
             res |-> NoResponse, n |-> 0]

\* The state of a server that starts on the stored rows rows.
InitWith(rows) ==
    /\ db = rows
    /\ tx = EmptyTx
    /\ autoinc = [t \in Tables |-> Max({ r.id : r \in rows[t] } \cup {0}) + 1]
    /\ fs = << >>
    /\ op = "none"
    /\ pc = "idle"
    /\ calls = 0
    /\ local = InitLocal
    /\ request = << >>
    /\ resp = NoResponse
    /\ pre = rows
    /\ fault = NoFail
    /\ proc = [w \in Workers |-> IdleProc]

InitStore == InitWith(InitDb)

Init == InitStore /\ serial = TRUE

\* The stores that getRecordingCount is called on: ann is stored twice (ids 1
\* and 2) and bob once, there is a session on each of two devices, and any
\* set of recordings of these speakers in these sessions.
CountSpeakers ==
    {[id |-> 1, name |-> "ann", deviceImei |-> "imei1"],
     [id |-> 2, name |-> "ann", deviceImei |-> "imei1"],
     [id |-> 3, name |-> "bob", deviceImei |-> "imei1"]}
CountSessions ==
    {[id |-> d, speakerId |-> 1, instructorId |-> 1, deviceId |-> d,
      location |-> "loc", start |-> 1, end |-> 1, comments |-> "c"] : d \in CountDeviceIds}
CountRecordings ==
    <<[speakerId |-> 1, sessionId |-> 1], [speakerId |-> 1, sessionId |-> 1],
      [speakerId |-> 2, sessionId |-> 1], [speakerId |-> 2, sessionId |-> 1],
      [speakerId |-> 2, sessionId |-> 2], [speakerId |-> 3, sessionId |-> 1],
      [speakerId |-> 1, sessionId |-> 2]>>
CountDb(kept) ==
    [t \in Tables |->
        CASE t = "speaker" -> CountSpeakers
          [] t = "session" -> CountSessions
          [] t = "recording" ->
               { [id |-> j, tokenId |-> 1, speakerId |-> CountRecordings[j].speakerId,
                  sessionId |-> CountRecordings[j].sessionId,
                  filename |-> <<"r", ".wav">>] : j \in kept }
          [] OTHER -> InitDb[t]]
\* The stores that getFromSet is called on.  Table recording holds the
\* placeholder (id 1) and up to MaxSetRecordings recordings after it, each
\* with the id of the token row or with an id that no token row has (which a
\* submission with inline tokenText leaves behind).  Table evaluation_sets
\* holds one row of set2 and then up to MaxMembers rows of set1, each for
\* any of the recordings.
SetRecordings(tokenIds) ==
    { [id |-> j, tokenId |-> tokenIds[j], speakerId |-> 1, sessionId |-> 1,
       filename |-> <<"r", ToString(j), ".wav">>] : j \in DOMAIN tokenIds }
SetMembers(recordingIds) ==
    { [id |-> 1, eval_set |-> "set2", recordingId |-> 1] }
        \cup { [id |-> j + 1, eval_set |-> "set1", recordingId |-> recordingIds[j]] :
                    j \in DOMAIN recordingIds }
SetDb(tokenIds, recordingIds) ==
    [t \in Tables |->
        CASE t = "recording" -> SetRecordings(tokenIds)
          [] t = "evaluation_sets" -> SetMembers(recordingIds)
          [] OTHER -> InitDb[t]]
InitSet ==
    \E n \in 1..(MaxSetRecordings + 1), k \in 0..MaxMembers :
        \E tokenIds \in [1..n -> SetTokenIds], recordingIds \in [1..k -> 1..n] :
            /\ tokenIds[1] = 1
            /\ InitWith(SetDb(tokenIds, recordingIds))
            /\ serial = TRUE

\* The stores that processEvaluation is called on: two recordings of session
\* 1 and one of session 2 with the file name of the first; set1 holds the
\* recordings of session 1; the evaluations made earlier are none or two.
EvalRecordings ==
    { [id |-> rec[1], tokenId |-> 1, speakerId |-> 1, sessionId |-> rec[2],
       filename |-> <<"r", rec[3], ".wav">>] :
          rec \in {<<1, 1, "a">>, <<2, 1, "b">>, <<3, 2, "a">>} }
EvalMembers ==
    { [id |-> j, eval_set |-> "set1", recordingId |-> j] : j \in {1, 2} }
EarlierEvaluations ==
    { [id |-> 1, recordingId |-> 1, eval_set |-> "set1", evaluator |-> "eve",
       grade |-> 1, comments |-> "", skipped |-> FALSE],
      [id |-> 2, recordingId |-> 3, eval_set |-> "Random", evaluator |-> "dan",
       grade |-> 3, comments |-> "", skipped |-> TRUE] }
EvalDb(earlier) ==
    [t \in Tables |->
        CASE t = "recording" -> EvalRecordings
          [] t = "evaluation_sets" -> EvalMembers
          [] t = "evaluation" -> earlier
          [] OTHER -> InitDb[t]]
InitEval ==
    \E earlier \in {{}, EarlierEvaluations} : InitWith(EvalDb(earlier)) /\ serial = TRUE

\* The stores that getRecordingsInfo is called on: up to MaxInfoRecordings
\* recordings, each of one of two sessions, with or without its token row.
InfoDb(sessionIds, tokenIds) ==
    [t \in Tables |->
        IF t = "recording"
          THEN { [id |-> j, tokenId |-> tokenIds[j], speakerId |-> 1,
                  sessionId |-> sessionIds[j],
                  filename |-> <<"r", ToString(j), ".wav">>] : j \in DOMAIN sessionIds }
          ELSE InitDb[t]]
InitInfo ==
    \E n \in 0..MaxInfoRecordings :
        \E sessionIds \in [1..n -> InfoSessionIds], tokenIds \in [1..n -> SetTokenIds] :
            InitWith(InfoDb(sessionIds, tokenIds)) /\ serial = TRUE

InitCount ==
    \E kept \in SUBSET DOMAIN CountRecordings : InitWith(CountDb(kept)) /\ serial = TRUE

\* Submissions, one at a time.
Next ==
    \/ SessionStart
    \/ SessionSpeaker
    \/ SessionDevice
    \/ SessionUpsert
    \/ SessionRecording
    \/ SessionFinish

Spec == Init /\ [][Next]_vars

\* Direct calls of processDeviceData, one at a time.
NextDevice == DeviceRequest
SpecDevice == Init /\ [][NextDevice]_vars

\* Direct calls of processSpeakerData, one at a time.
NextSpeaker == SpeakerRequest
SpecSpeaker == Init /\ [][NextSpeaker]_vars

\* Direct calls of processInstructorData, one at a time.
NextInstructor == InstructorRequest
SpecInstructor == Init /\ [][NextInstructor]_vars

\* Direct calls of insertGeneralData, one at a time.

\* A direct call of getRecordingCount; the call reads and writes nothing.
CountRequest ==
    \E speakerName \in {"ann", "bob", "eve"}, speakerId \in {1, 2, 3},
       deviceId \in CountDeviceIds, failed \in BOOLEAN :
        /\ pc \in {"idle", "done"}
        /\ calls < MaxCountRequests
        /\ op' = "getRecordingCount"
        /\ calls' = calls + 1
        /\ request' = [speakerName |-> speakerName, speakerId |-> speakerId,
                       deviceId |-> deviceId]
        /\ fault' = IF failed THEN [call |-> 0, stmt |-> "lookup"] ELSE NoFail
        /\ pre' = db
        /\ Return(St, Response(Json("recCnt" :>
                getRecordingCount(speakerName, speakerId, deviceId, failed, St)), 200))
        /\ UNCHANGED <<fs, local>>

NextInsert == GeneralInsert
SpecInsert == Init /\ [][NextInsert]_vars

\* A call of getFromSet; the call writes nothing.
SetRequest ==
    \E eval_set \in {"set1", "set3", "Random"}, progress \in 0..MaxProgress, count \in 0..MaxCount,
       failed \in BOOLEAN :
        \E randIds \in Samples(randomRecIds(St), count) :
            /\ pc \in {"idle", "done"}
            /\ calls < MaxSetRequests
            /\ op' = "getFromSet"
            /\ calls' = calls + 1
            /\ request' = [eval_set |-> eval_set, progress |-> progress, count |-> count]
            /\ fault' = IF failed THEN [call |-> 0, stmt |-> "lookup"] ELSE NoFail
            /\ pre' = db
            /\ Return(St, getFromSet(eval_set, progress, count, randIds, failed, St))
            /\ UNCHANGED <<fs, local>>

\* A call of processEvaluation.
EvaluationRequest ==
    \E eval_set \in EvalSets, data \in EvaluationBatches :
        \E fail \in EvalFails(Len(data.list)) :
            LET r == processEvaluation(eval_set, data, fail, St)
            IN  /\ pc \in {"idle", "done"}
                /\ calls < MaxEvalRequests
                /\ op' = "processEvaluation"
                /\ calls' = calls + 1
                /\ request' = [eval_set |-> eval_set, data |-> data]
                /\ fault' = fail
                /\ pre' = db
                /\ Return(r.st, r.res)
                /\ UNCHANGED <<fs, local>>

\* A call of getUserProgress; the call writes nothing.
ProgressRequest ==
    \E user \in Evaluators, eval_set \in EvalSets, failed \in BOOLEAN :
        /\ pc \in {"idle", "done"}
        /\ calls < MaxEvalRequests + MaxProgressRequests
        /\ op' = "getUserProgress"
        /\ calls' = calls + 1
        /\ request' = [user |-> user, eval_set |-> eval_set]
        /\ fault' = IF failed THEN [call |-> 0, stmt |-> "lookup"] ELSE NoFail
        /\ pre' = db
        /\ Return(St, getUserProgress(user, eval_set, failed, St))
        /\ UNCHANGED <<fs, local>>

\* A call of getRecordingsInfo; the call writes nothing.
InfoRequest ==
    \E sessionId \in InfoSessionIds, failed \in BOOLEAN,
       count \in {<< >>} \cup { <<n>> : n \in 1..MaxInfoRecordings } :
        /\ pc \in {"idle", "done"}
        /\ calls < MaxInfoRequests
        /\ op' = "getRecordingsInfo"
        /\ calls' = calls + 1
        /\ request' = [sessionId |-> sessionId, count |-> count]
        /\ fault' = IF failed THEN [call |-> 0, stmt |-> "lookup"] ELSE NoFail
        /\ pre' = db
        /\ Return(St, getRecordingsInfo(sessionId, count, failed, St))
        /\ UNCHANGED <<fs, local>>

\* A direct call of writeRecToFilesystem, for a file named with or without
\* '.wav'.  The call returns recName, or raises os.error.
WriteRequest ==
    \E rec \in {<<"a", ".wav">>, <<"b">>, <<"c", ".mp3">>}, tok \in {None, "hello"},
       sId \in {NoId, 1}, spName \in {None, "ann"}, lost \in BOOLEAN,
       fsfail \in {"none", "wav", "txt"} :
        LET w == writeRecToFilesystem(rec, tok, sId, spName, lost, fsfail, fs)
        IN  /\ pc \in {"idle", "done"}
            /\ calls < MaxWriteRequests
            /\ op' = "writeRecToFilesystem"
            /\ calls' = calls + 1
            /\ request' = [rec |-> rec, sessionId |-> sId, lost |-> lost]
            /\ fault' = IF fsfail = "none" THEN NoFail ELSE [call |-> 1, stmt |-> fsfail]
            /\ pre' = db
            /\ fs' = w.fs
            /\ Return(St, IF w.ok THEN Response(Json("recName" :> w.recName), 200)
                          ELSE Raised("OSError"))
            /\ UNCHANGED local

NextCount == CountRequest
SpecCount == InitCount /\ [][NextCount]_vars

NextSet == SetRequest
NextWrite == WriteRequest
SpecWrite == Init /\ [][NextWrite]_vars
NextInfo == InfoRequest
SpecInfo == InitInfo /\ [][NextInfo]_vars
NextEval == EvaluationRequest \/ ProgressRequest
SpecEval == InitEval /\ [][NextEval]_vars
SpecSet == InitSet /\ [][NextSet]_vars

----------------------------------------------------------------------------
(* Requests of several workers *)

\* Every worker serves its requests on a connection of its own.  A resolver
\* call that inserts commits inside insertGeneralData, so between the lookup
\* and the insert of one call another worker's call can run.  With serial =
\* TRUE the server admits a call only when no other call is under way.
ConcDeviceDocs ==
    {[userAgent |-> "ua1", imei |-> "imei1"], [userAgent |-> "ua2", imei |-> "imei1"],
     [userAgent |-> "ua1", imei |-> "imei2"]}
ConcSpeakerDocs ==
    {[name |-> "ann", deviceImei |-> "imei1"], [name |-> "bob", deviceImei |-> "imei1"]}

Conn == [db |-> db, tx |-> EmptyTx, autoinc |-> autoinc]

Admitted(w) ==
    /\ proc[w].pc \in {"idle", "done"}
    /\ proc[w].n < MaxWorkerCalls
    /\ serial => \A v \in Workers : proc[v].pc /= "looked"

ConcFrame ==
    UNCHANGED <<tx, fs, op, pc, calls, local, request, resp, pre, fault, serial>>

DeviceLookupStep(w) ==
    \E deviceData \in ConcDeviceDocs :
        /\ Admitted(w)
        /\ proc' = [proc EXCEPT ![w] =
                      [pc |-> "looked", kind |-> "device", doc |-> deviceData,
                       d |-> deviceLookup(deviceData, NoFail, Conn),
                       res |-> NoResponse, n |-> @.n + 1]]
        /\ UNCHANGED <<db, autoinc>>
        /\ ConcFrame

DeviceResultStep(w) ==
    LET r == deviceResult(proc[w].d, proc[w].doc, NoFail, Conn)
    IN  /\ proc[w].pc = "looked"
        /\ proc[w].kind = "device"
        /\ db' = r.st.db
        /\ autoinc' = r.st.autoinc
        /\ proc' = [proc EXCEPT ![w].pc = "done", ![w].res = r.res]
        /\ ConcFrame

SpeakerLookupStep(w) ==
    \E speakerData \in ConcSpeakerDocs :
        /\ Admitted(w)
        /\ proc' = [proc EXCEPT ![w] =
                      [pc |-> "looked", kind |-> "speaker", doc |-> speakerData,
                       d |-> speakerLookup(speakerData, NoFail, Conn),
                       res |-> NoResponse, n |-> @.n + 1]]
        /\ UNCHANGED <<db, autoinc>>
        /\ ConcFrame

SpeakerResultStep(w) ==
    LET r == speakerResult(proc[w].d, proc[w].doc, NoFail, Conn)
    IN  /\ proc[w].pc = "looked"
        /\ proc[w].kind = "speaker"
        /\ db' = r.st.db
        /\ autoinc' = r.st.autoinc
        /\ proc' = [proc EXCEPT ![w].pc = "done", ![w].res = r.res]
        /\ ConcFrame

InitConc == InitStore /\ serial \in BOOLEAN

NextConc ==
    \E w \in Workers :
        \/ DeviceLookupStep(w)
        \/ DeviceResultStep(w)
        \/ SpeakerLookupStep(w)
        \/ SpeakerResultStep(w)

SpecConc == InitConc /\ [][NextConc]_vars

----------------------------------------------------------------------------
(* Properties of processSessionData *)

\* A call of processSessionData has ended.
SessionDone == op = "processSessionData" /\ pc = "done"
\* ... and it got past the test of its recordings argument.
SubmissionDone == SessionDone /\ Len(local.recordings) > 0
\* The call ended by a return statement, not by an exception.
Responded == resp.raised = ""
TranscriptPath(wavePath) == [wavePath EXCEPT !.name = ReplaceWav(@)]
StoreError == Text("Error saving recordings to file.")

\* C1: when a call with a non-empty list of recordings ends with a response
\* (other than the failure of the file system itself), every recording of the
\* list has been written: its audio file and its transcript file exist, under
\* the session directory or under lost.
C1_EveryRecordingOnDisk ==
    (SubmissionDone /\ Responded /\ resp.msg /= StoreError) =>
        /\ Len(local.written) = Len(local.recordings)
        /\ \A j \in 1..Len(local.written) :
             /\ local.written[j] \in DOMAIN fs
             /\ TranscriptPath(local.written[j]) \in DOMAIN fs

\* C2: when a call ends with a response and without commit, every recording
\* that it wrote lies under lost and not under the session directory.
C2_UncommittedUnderLost ==
    (SubmissionDone /\ Responded /\ resp.statusCode /= 200) =>
        \A j \in 1..Len(local.written) : local.written[j].lost

\* C3: the session upsert and the recording inserts of a call are committed
\* together or not at all.  Nothing of them is committed while the call runs;
\* a call that ends otherwise than with 200 leaves the committed session and
\* recording tables as they were before it; a call that ends with 200 had no
\* error, and has committed its session row (with the submitted end) and one
\* recording row for every recording.
C3_SessionAndRecordingsTogether ==
    op = "processSessionData" =>
        /\ (pc /= "done" \/ resp.statusCode /= 200) =>
              /\ db.session = pre.session
              /\ db.recording = pre.recording
        /\ (pc = "done" /\ resp.statusCode = 200) =>
              /\ local.error = ""
              /\ \E r \in db.session :
                    /\ r.id = local.sessionId
                    /\ r.end = local.end
                    /\ db.session \ {r} = { q \in pre.session : q.id /= r.id }
              /\ pre.recording \subseteq db.recording
              /\ Cardinality(db.recording \ pre.recording) = Len(local.recordings)
              /\ \A r \in db.recording \ pre.recording :
                    r.sessionId = local.sessionId

\* A call upserted its session, stored its first recording and inserted the
\* row for it, then met a recording without token; it ended with 400 and the
\* committed tables are those of before.
C3_Witness ==
    /\ SubmissionDone
    /\ resp.statusCode = 400
    /\ local.sessionId /= NoId
    /\ local.idx = 2
    /\ ~local.written[1].lost
    /\ local.written[2].lost
    /\ db.session = pre.session
    /\ db.recording = pre.recording

\* Device, speaker and speaker_info rows that a call can leave behind.
IdentityTables == {"device", "speaker", "speaker_info"}

\* C4: a call that ends with an error response leaves no newly committed
\* device, speaker or speaker_info row.
C4_IdentityRowsInTransaction ==
    (SubmissionDone /\ Responded /\ resp.statusCode /= 200) =>
        \A t \in IdentityTables : db[t] = pre[t]

\* C5: every call of processSessionData ends by returning a response of status
\* 200, 400 or 500, never by an exception.
C5_AlwaysResponds ==
    SessionDone => Responded /\ resp.statusCode \in {200, 400, 500}

----------------------------------------------------------------------------
(* Properties of the resolvers *)

DeviceDone == op = "processDeviceData" /\ pc = "done"
CarriesImei == "imei" \in DOMAIN request /\ request.imei /= ""
WithImei(rows, imei) == { r \in rows : r.imei = imei }
IdOf(rows) == (CHOOSE r \in rows : TRUE).id

\* C6: with calls of processDeviceData one after the other, no two device rows
\* share a non-empty imei.  A call that carries an imei of which a row exists
\* inserts nothing and, whatever userAgent and deviceId it carries, returns
\* the id of that row (or the failure of its lookup); a call that carries an
\* imei of which no row exists and that returns 200 has inserted exactly one
\* row, the one of the id it returns; if it returns otherwise it has inserted
\* nothing.
C6_OneDevicePerImei ==
    /\ \A imei \in DeviceImeis \ {""} : Cardinality(WithImei(db.device, imei)) <= 1
    /\ (DeviceDone /\ CarriesImei) =>
         LET old == WithImei(pre.device, request.imei)
             new == WithImei(db.device, request.imei)
         IN  /\ old /= {} =>
                  /\ db.device = pre.device
                  /\ "userAgent" \in DOMAIN request => resp.statusCode \in {200, 500}
                  /\ resp.statusCode = 200 => resp.msg.obj.deviceId = IdOf(old)
             /\ (old = {} /\ resp.statusCode = 200) =>
                  /\ Cardinality(new) = 1
                  /\ db.device = pre.device \cup new
                  /\ resp.msg.obj.deviceId = IdOf(new)
             /\ (old = {} /\ resp.statusCode /= 200) => db.device = pre.device

\* A third call carries the imei of a row together with another userAgent and
\* the id of another row: it returns the id of the imei's row.
C6_Witness ==
    /\ DeviceDone
    /\ CarriesImei
    /\ calls = 3
    /\ DOMAIN request = {"userAgent", "imei", "deviceId"}
    /\ resp.statusCode = 200
    /\ db.device = pre.device
    /\ \E r \in pre.device :
          /\ r.imei = request.imei
          /\ r.userAgent /= request.userAgent
          /\ r.id /= request.deviceId
          /\ resp.msg.obj.deviceId = r.id
          /\ \E q \in pre.device : q.id = request.deviceId

DuplicateDevice ==
    \E r, q \in db.device : r.id /= q.id /\ r.imei = q.imei /\ r.imei \notin {"", NULL}
DuplicateSpeaker ==
    \E r, q \in db.speaker :
        r.id /= q.id /\ r.name = q.name /\ r.deviceImei = q.deviceImei
                     /\ r.deviceImei \notin {"", NULL}

\* C7: when the resolver calls of the workers run one at a time, no two device
\* rows share an imei and no two speaker rows share (name, deviceImei); the
\* rows can be duplicated only when calls of two workers overlap.
C7_DuplicatesOnlyByOverlap ==
    (DuplicateDevice \/ DuplicateSpeaker) => ~serial

\* Two workers looked up the same new imei before either inserted, later the
\* same new (name, deviceImei): both rows are duplicated.
C7_Witness ==
    /\ ~serial
    /\ DuplicateDevice
    /\ DuplicateSpeaker
    /\ \A w \in Workers : proc[w].pc = "done" /\ proc[w].res.statusCode = 200

SessionKeyOf(r) == <<r.speakerId, r.instructorId, r.deviceId, r.location, r.start>>

\* C8: no two session rows share (speakerId, instructorId, deviceId, location,
\* start).  A call that ends with 200 and whose key was that of a row before
\* the call has created no session row, returns the id of that row, and has
\* set the row's end to the submitted end.
C8_OneSessionPerKey ==
    /\ \A r, q \in db.session : SessionKeyOf(r) = SessionKeyOf(q) => r = q
    /\ (SubmissionDone /\ resp.statusCode = 200) =>
         LET old == { r \in pre.session : SessionKeyOf(r) = SessionKeyOf(local) }
         IN  old /= {} =>
               /\ { r.id : r \in db.session } = { r.id : r \in pre.session }
               /\ resp.msg.obj.sessionId = IdOf(old)
               /\ \E r \in db.session : r.id = IdOf(old) /\ r.end = local.end

\* A second submission with the key of the first and another end.
C8_Witness ==
    /\ SubmissionDone
    /\ resp.statusCode = 200
    /\ \E r \in pre.session :
          /\ SessionKeyOf(r) = SessionKeyOf(local)
          /\ r.end /= local.end
          /\ resp.msg.obj.sessionId = r.id
          /\ [r EXCEPT !.end = local.end] \in db.session
    /\ Cardinality(db.session) = Cardinality(pre.session)

\* C9: a call whose instructorId is the id of no instructor row ends with 400,
\* commits no session and no recording row, and inserts no device row.
C9_UnknownInstructorRejected ==
    (SubmissionDone /\ local.instructorId /= NoId
       /\ \A r \in pre.instructor : r.id /= local.instructorId) =>
        /\ resp.statusCode = 400
        /\ db.session = pre.session
        /\ db.recording = pre.recording
        /\ db.device = pre.device

\* C10: a call that ends with its accumulated error returns the status of the
\* resolver that failed: 500 after a resolver's 500, 400 after its 400.
C10_ResolverStatusReturned ==
    (SubmissionDone /\ Responded /\ resp.msg = Text(local.error)) =>
        /\ local.speakerStatus \in {400, 500} => resp.statusCode = local.speakerStatus
        /\ local.deviceStatus \in {400, 500} => resp.statusCode = local.deviceStatus

InstructorDone == op = "processInstructorData" /\ pc = "done"

\* C11: a call of processInstructorData whose document carries an id inserts
\* no instructor row, whatever else the document carries: when a row has the
\* id it returns that id with 200, when none has it returns 400 (500 when the
\* lookup itself fails).  The instructor table changes only by a call whose
\* document carries no id.
C11_InstructorIdNeverInserts ==
    InstructorDone =>
        /\ db.instructor /= pre.instructor => "id" \notin DOMAIN request
        /\ "id" \in DOMAIN request =>
             LET known == \E r \in pre.instructor : r.id = request.id
             IN  /\ db.instructor = pre.instructor
                 /\ fault.stmt = "lookup" => resp.statusCode = 500
                 /\ (fault.stmt /= "lookup" /\ known) =>
                       /\ resp.statusCode = 200
                       /\ resp.msg.obj.instructorId = request.id
                 /\ (fault.stmt /= "lookup" /\ ~known) => resp.statusCode = 400

\* After an instructor was inserted, a document with an unknown id and with
\* fields that an insert would accept is answered with 400.
C11_Witness ==
    /\ InstructorDone
    /\ DOMAIN request = {"id", "name", "email"}
    /\ \A r \in pre.instructor : r.id /= request.id
    /\ Cardinality(pre.instructor) = 2
    /\ resp.statusCode = 400
    /\ db.instructor = pre.instructor

\* A call of processDeviceData that identifies the device by its id: the
\* document has a userAgent and a deviceId, no imei or an empty one, and only
\* allowed keys; no statement failed.
ByDeviceId ==
    /\ DeviceDone
    /\ ~CarriesImei
    /\ {"userAgent", "deviceId"} \subseteq DOMAIN request
    /\ "bogus" \notin DOMAIN request
    /\ fault = NoFail
\* The row of the submitted id holds the submitted userAgent.
SameAgent ==
    \E r \in pre.device : r.id = request.deviceId /\ r.userAgent = request.userAgent
\* The call has inserted exactly one row, returns its id, and has left the
\* rows of before as they were.
Forked ==
    /\ pre.device \subseteq db.device
    /\ Cardinality(db.device \ pre.device) = 1
    /\ resp.statusCode = 200
    /\ resp.msg.obj.deviceId = IdOf(db.device \ pre.device)
    /\ \A r \in pre.device : r.id /= resp.msg.obj.deviceId

\* C12, as stated: a call that identifies the device by id returns that id
\* and inserts nothing when the row of the id holds the submitted userAgent;
\* otherwise it inserts exactly one row and returns the new row's id, which
\* differs from the submitted deviceId, and leaves the stored rows unchanged.
C12_ForkHasAnotherId ==
    ByDeviceId =>
        IF SameAgent
          THEN /\ db.device = pre.device
               /\ resp.statusCode = 200
               /\ resp.msg.obj.deviceId = request.deviceId
          ELSE Forked /\ resp.msg.obj.deviceId /= request.deviceId

\* C12, amended: the id of the new row is the id of no row stored before; it
\* differs from the submitted deviceId when a row of that id is stored, and
\* can be the submitted deviceId when none is.
C12_ForkIsNewRow ==
    ByDeviceId =>
        IF SameAgent
          THEN /\ db.device = pre.device
               /\ resp.statusCode = 200
               /\ resp.msg.obj.deviceId = request.deviceId
          ELSE /\ Forked
               /\ (\E r \in pre.device : r.id = request.deviceId)
                     => resp.msg.obj.deviceId /= request.deviceId

\* The row of the submitted id holds another userAgent: a second row is
\* inserted and the first is kept.
C12_Witness ==
    /\ ByDeviceId
    /\ \E r \in pre.device :
          /\ r.id = request.deviceId
          /\ r.userAgent /= request.userAgent
          /\ r \in db.device
    /\ Forked
    /\ resp.msg.obj.deviceId /= request.deviceId

SpeakerDone == op = "processSpeakerData" /\ pc = "done"
InfoOf(rows, id) == { a \in rows : a.speakerId = id }
\* The document of the call names a speaker that is stored: by (name,
\* deviceImei), or without deviceImei by speakerId and name.
ExistingSpeaker ==
    /\ "name" \in DOMAIN request
    /\ IF "deviceImei" \in DOMAIN request /\ request.deviceImei /= ""
         THEN \E r \in pre.speaker :
                 r.name = request.name /\ r.deviceImei = request.deviceImei
         ELSE /\ "speakerId" \in DOMAIN request
              /\ \E r \in pre.speaker :
                    r.id = request.speakerId /\ r.name = request.name

\* C13: a call of processSpeakerData that resolves to a stored speaker inserts
\* no speaker and no speaker_info row, whatever extra keys its document
\* carries; every speaker_info row that a call inserts belongs to the speaker
\* row that the same call inserted; the speaker_info rows of a stored speaker
\* never change.
C13_InfoOnlyAtCreation ==
    SpeakerDone =>
        /\ ExistingSpeaker =>
              /\ db.speaker = pre.speaker
              /\ db.speaker_info = pre.speaker_info
        /\ \A a \in db.speaker_info \ pre.speaker_info :
              \E r \in db.speaker \ pre.speaker : a.speakerId = r.id
        /\ \A r \in pre.speaker :
              InfoOf(db.speaker_info, r.id) = InfoOf(pre.speaker_info, r.id)

\* A speaker stored without extra keys is resolved by a document that carries
\* both extra keys: it is found and keeps no speaker_info row.
C13_Witness ==
    /\ SpeakerDone
    /\ ExistingSpeaker
    /\ {"sex", "age"} \subseteq DOMAIN request
    /\ fault = NoFail
    /\ resp.statusCode = 200
    /\ InfoOf(db.speaker_info, resp.msg.obj.speakerId) = {}
    /\ db.speaker = pre.speaker

----------------------------------------------------------------------------
(* Properties of insertGeneralData *)

InsertDone == op = "insertGeneralData" /\ pc = "done"

\* C14: a call of insertGeneralData whose document carries a key outside the
\* allow-list of its entity returns 400 and leaves every table as it was,
\* also when the other keys of the document are allowed.
C14_UnallowedKeyRejected ==
    (InsertDone
       /\ \E key \in DOMAIN request.data : key \notin allowedColumnNames[request.name]) =>
        /\ resp = Response(Text(request.name \o " data not on correct format, aborting."),
                           400)
        /\ db = pre

\* A device document with the two allowed keys and one more is rejected after
\* rows were stored.
C14_Witness ==
    /\ InsertDone
    /\ request.name = "device"
    /\ DOMAIN request.data = {"userAgent", "imei", "name"}
    /\ resp.statusCode = 400
    /\ db = pre
    /\ db.device /= {}

----------------------------------------------------------------------------
(* Properties of insertSpeakerData *)

\* C15: when one insertGeneralData of a call of processSpeakerData ends with
\* 500, the row of that insert is not committed: a failed insert of the
\* speaker leaves no new speaker row, a failed insert of a pair of speakerInfo
\* leaves no new speaker_info row of that pair's key.
C15_FailedInsertNotCommitted ==
    (SpeakerDone /\ fault.call >= 1) =>
        IF fault.call = 1
          THEN db.speaker = pre.speaker
          ELSE \A a \in db.speaker_info \ pre.speaker_info :
                  a.s_key /= speakerInfoOf(request)[fault.call - 1][1]

\* A step of the loop over recordings is about to be taken.
InRecordingsLoop ==
    op = "processSessionData" /\ pc = "recordings"
        /\ local.idx < Len(local.recordings)
\* The paths that the step has written.
WrittenByStep ==
    { local'.written[j] : j \in (Len(local.written) + 1)..Len(local'.written) }
TokenMissing == "No token with supplied id."

C17_RecordingHasToken ==
    \A r \in db.recording : \E t \in token : t.id = r.tokenId

----------------------------------------------------------------------------
(* Properties of getRecordingCount *)

CountDone == op = "getRecordingCount" /\ pc = "done"
\* The recordings of the speakers of that name made on that device.
ByNameOnDevice(name, dId) ==
    { r \in db.recording :
        /\ \E s \in db.speaker : s.id = r.speakerId /\ s.name = name
        /\ \E s \in db.session : s.id = r.sessionId /\ s.deviceId = dId }
\* The recordings of the speaker of that id.
BySpeakerId(sId) == { r \in db.recording : r.speakerId = sId }
CountByName == Cardinality(ByNameOnDevice(request.speakerName, request.deviceId))
CountById == Cardinality(BySpeakerId(request.speakerId))

\* C18: getRecordingCount returns the maximum of the number of recordings
\* whose speaker has the given name and whose session has the given device,
\* and the number of recordings of the given speakerId: the result is one of
\* the two counts and is smaller than neither (-1 when a query fails).
C18_CountIsTheLarger ==
    CountDone =>
        IF fault /= NoFail THEN resp.msg.obj.recCnt = -1
        ELSE /\ resp.msg.obj.recCnt \in {CountByName, CountById}
             /\ resp.msg.obj.recCnt >= CountByName
             /\ resp.msg.obj.recCnt >= CountById

\* ann is stored as speakers 1 and 2 on the same device; the count by name,
\* over both rows, is larger than the count of speaker 2 and is the result.
\* In another store the count by id is the larger one and is the result.
C18_Witness ==
    /\ CountDone /\ fault = NoFail
    /\ request = [speakerName |-> "ann", speakerId |-> 2, deviceId |-> 1]
    /\ BySpeakerId(1) /= {} /\ BySpeakerId(2) /= {}
    /\ CountByName > CountById /\ CountById > 0
    /\ resp.msg.obj.recCnt = CountByName

----------------------------------------------------------------------------
(* Properties of getFromSet *)

SetDone == op = "getFromSet" /\ pc = "done" /\ fault = NoFail
MaterializedDone == SetDone /\ request.eval_set /= "Random"
RandomDone == SetDone /\ request.eval_set = "Random"
\* The membership rows of the set asked for.
Members == { m \in db.evaluation_sets : m.eval_set = request.eval_set }
HasToken(r) == \E t \in token : t.id = r.tokenId
\* ... and those whose recording has its token row.
Joined == { m \in Members : \E r \in db.recording : r.id = m.recordingId /\ HasToken(r) }
\* The number of rows of the set, and the pair of its row at position n
\* (from 0), in the order of insertion.
PairOfRecording(r) ==
    [link |-> <<"RECSURL", "session_" \o ToString(r.sessionId), r.filename>>,
     prompt |-> IF HasToken(r) THEN (CHOOSE t \in token : t.id = r.tokenId).inputToken
                ELSE None]
PairAt(rows, n) ==
    LET m == CHOOSE q \in rows : Cardinality({ x \in rows : x.id < q.id }) = n
    IN  PairOfRecording(CHOOSE r \in db.recording : r.id = m.recordingId)
\* The response is 200 with the pairs of rows at the positions progress, ...,
\* progress + count - 1, as far as rows has them.
IsSliceOf(rows) ==
    LET from == request.progress
        size == Cardinality(rows)
        len == IF from >= size THEN 0
               ELSE IF from + request.count <= size THEN request.count
               ELSE size - from
    IN  /\ resp.statusCode = 200
        /\ Len(resp.msg.obj) = len
        /\ \A j \in 1..len : resp.msg.obj[j] = PairAt(rows, from + j - 1)

Placeholder == CHOOSE r \in db.recording : \A q \in db.recording : r.id <= q.id
Pool == db.recording \ {Placeholder}
\* The recordings whose pairs the response holds.
Returned == { r \in db.recording : \E j \in DOMAIN resp.msg.obj :
                                      resp.msg.obj[j] = PairOfRecording(r) }
NoTwice(s) == \A i, j \in DOMAIN s : s[i] = s[j] => i = j
\* The responses that the same call can give when asked with progress p.
RandomResponses(p) ==
    { getFromSet("Random", p, request.count, randIds, FALSE, St) :
        randIds \in Samples(randomRecIds(St), request.count) }

----------------------------------------------------------------------------
(* Properties of processEvaluation and getUserProgress *)

\* A call of processEvaluation on a decoded list has ended, and no statement
\* of it met a storage error.
EvalDone ==
    op = "processEvaluation" /\ pc = "done" /\ ~request.data.malformed
Batch == request.data.list
\* The element j of the batch is an evaluation with every key, of a recording
\* in store that belongs to the set (any recording for 'Random').
Resolves(j) ==
    /\ Batch[j].object
    /\ evaluationKeys \subseteq DOMAIN Batch[j].data
    /\ \E r \in db.recording :
          /\ r.sessionId = Batch[j].data.sessionId
          /\ r.filename = Batch[j].data.recordingFilename
          /\ request.eval_set /= "Random" =>
                \E m \in db.evaluation_sets :
                    m.recordingId = r.id /\ m.eval_set = request.eval_set
Valid(j) == Resolves(j) /\ fault.call /= j
NewEvaluations == db.evaluation \ pre.evaluation

\* C21: a batch commits exactly one evaluation row for every element that
\* resolves, and none for the others, wherever the others stand in the batch.
C21_EveryValidEntryCommitted ==
    (EvalDone /\ fault = NoFail) =>
        Cardinality(NewEvaluations) = Cardinality({ j \in DOMAIN Batch : Resolves(j) })

\* The elements of the batch that are not valid, as a batch of their own.
RECURSIVE OnlyInvalid(_)
OnlyInvalid(j) ==
    IF j = 0 THEN << >>
    ELSE IF Valid(j) THEN OnlyInvalid(j - 1)
    ELSE Append(OnlyInvalid(j - 1), Batch[j])
PreSt == [db |-> pre, tx |-> EmptyTx, autoinc |-> autoinc]

\* C22: the response to a batch with valid and invalid elements differs from
\* the response to the batch of its invalid elements alone.
C22_PartialFailureSignalled ==
    (EvalDone /\ fault = NoFail /\ Responded
        /\ (\E j \in DOMAIN Batch : Valid(j)) /\ (\E j \in DOMAIN Batch : ~Valid(j))) =>
        resp /= processEvaluation(request.eval_set,
                                  [malformed |-> FALSE, list |-> OnlyInvalid(Len(Batch))],
                                  NoFail, PreSt).res

\* What the element j of the batch sets error to; NoFailure when it is
\* inserted.
NoFailure == [msg |-> "", statusCode |-> 200]
FailureOf(j) ==
    IF ~(evaluationKeys \subseteq DOMAIN Batch[j].data)
      THEN [msg |-> "Some evaluation data not on correct format, wrong key.",
            statusCode |-> 400]
    ELSE IF fault.call = j /\ fault.stmt = "select"
      THEN [msg |-> "Error inserting some evaluation into database.", statusCode |-> 500]
    ELSE IF ~Resolves(j)
      THEN [msg |-> "Could not find a recording with some data.", statusCode |-> 400]
    ELSE IF fault.call = j
      THEN [msg |-> "Error inserting some evaluation into database.", statusCode |-> 500]
    ELSE NoFailure
Failing == { j \in DOMAIN Batch : FailureOf(j) /= NoFailure }

\* C24: the message and the status code of the response are those of the
\* last element of the batch that failed (400 for a missing key or a
\* recording that is not found, 500 for a storage error); when no element
\* failed the response is 200.
C24_LastErrorReported ==
    (EvalDone /\ Responded) =>
        IF Failing = {} THEN resp.statusCode = 200
        ELSE /\ resp.msg = Text(FailureOf(Max(Failing)).msg)
             /\ resp.statusCode = FailureOf(Max(Failing)).statusCode

\* Two elements failed, the first by a storage error and the last by a
\* missing key: the response is the 400 of the last.
C24_Witness ==
    /\ EvalDone /\ Responded
    /\ Cardinality(Failing) >= 2
    /\ \E j \in Failing : FailureOf(j).statusCode = 500
    /\ FailureOf(Max(Failing)).statusCode = 400
    /\ resp.statusCode = 400
    /\ \E j \in DOMAIN Batch : j > Max(Failing)

ProgressDone == op = "getUserProgress" /\ pc = "done" /\ fault = NoFail
\* The committed evaluations of an evaluator in a set, in a store.
EvaluationsOf(rows, user, eval_set) ==
    { e \in rows.evaluation : e.evaluator = user /\ e.eval_set = eval_set }
\* The elements of the batch that were inserted for the evaluator.
InsertedFor(user) ==
    { j \in DOMAIN Batch : Valid(j) /\ Batch[j].data.evaluator = user }

----------------------------------------------------------------------------
(* Properties of the committed rows *)

\* The row is kept by the step as it is, or, a session row, with another end.
KeptByStep(t, r) ==
    \/ r \in db'[t]
    \/ /\ t = "session"
       /\ \E q \in db'[t] : q = [r EXCEPT !.end = q.end]

----------------------------------------------------------------------------
(* Properties of getRecordingsInfo *)

InfoDone == op = "getRecordingsInfo" /\ pc = "done" /\ fault = NoFail
\* The ids of the recordings of the session that have their token row.
OfSession ==
    { r.id : r \in { q \in db.recording :
                        q.sessionId = request.sessionId /\ HasToken(q) } }
\* The n highest of the ids.
Newest(ids, n) == { i \in ids : Cardinality({ k \in ids : k > i }) < n }
ReturnedIds == { resp.msg.obj[j].recId : j \in DOMAIN resp.msg.obj }
Ascending(s) == \A i, j \in DOMAIN s : i < j => s[i].recId < s[j].recId

\* C26: with count, getRecordingsInfo returns the count newest recordings of
\* the session, those of the highest ids, in ascending order of id; without
\* count it returns all recordings of the session in that order.
C26_CountNewest ==
    InfoDone =>
        /\ Ascending(resp.msg.obj)
        /\ ReturnedIds = IF request.count = << >> THEN OfSession
                         ELSE Newest(OfSession, request.count[1])

----------------------------------------------------------------------------
(* Properties of the recording store *)

\* The directory of the session of the running call, as the claim has it.
DirOfSession ==
    IF local.sessionId = NoId THEN "session_unknown"
    ELSE "session_" \o ToString(local.sessionId)

\* C27: a recording of a call with an error is written under lost, in the
\* directory of the session id when the upsert had obtained one and in
\* session_unknown otherwise.  No session id is obtained when the error is one
\* of the document or of the resolvers, nor when the upsert failed before
\* it had found or inserted and read back the session row.  After a recording
\* written under lost no recording of the call is written elsewhere.
C27_LostDirectoryOfSession ==
    op = "processSessionData" =>
        /\ \A j \in DOMAIN local.written :
              /\ local.written[j].lost =>
                    /\ local.error /= ""
                    /\ local.written[j].dir = DirOfSession
                    /\ \A k \in DOMAIN local.written : k > j => local.written[k].lost
              /\ ~local.written[j].lost => local.sessionId /= NoId
        /\ (local.error /= "" /\ ~local.curBound) => local.sessionId = NoId
        /\ (local.error = SessionDbError /\ local.sessionId /= NoId) =>
              \E r \in pre.session : r.id = local.sessionId

\* The first recording was written to the session directory, the token of
\* the second was missing, and it was written under lost/session_<id>.
C27_Witness ==
    /\ SessionDone
    /\ Len(local.written) = 2
    /\ ~local.written[1].lost
    /\ local.written[2].lost
    /\ local.sessionId /= NoId
    /\ local.written[2].dir = "session_" \o ToString(local.sessionId)

\* No session id was obtained, and the recording lies under
\* lost/session_unknown.
C27_WitnessUnknown ==
    /\ SessionDone
    /\ Len(local.written) >= 1
    /\ local.written[1] = [lost |-> TRUE, dir |-> "session_unknown",
                           name |-> local.written[1].name]

\* The path of the audio file of a recording row in the session directory.
AudioPathOf(r) ==
    [lost |-> FALSE, dir |-> "session_" \o ToString(r.sessionId), name |-> r.filename]

\* C28: for every committed recording row the file session_<sessionId>/
\* <filename> exists in the session directory, not under lost.
C28_CommittedRecordingHasFile ==
    \A r \in db.recording : AudioPathOf(r) \in DOMAIN fs

\* A submission has committed a recording row, and its file is there.
C28_Witness ==
    /\ SessionDone /\ resp.statusCode = 200
    /\ \E r \in db.recording \ pre.recording : AudioPathOf(r) \in DOMAIN fs

\* C29: no two committed recording rows have the same session id and the
\* same file name.
C29_OneRowPerSessionAndFile ==
    \A r, q \in db.recording :
        (r.sessionId = q.sessionId /\ r.filename = q.filename) => r = q

WriteDone == op = "writeRecToFilesystem" /\ pc = "done" /\ fault = NoFail
\* The path that the call saved the audio to.
SavedAudio ==
    [lost |-> request.lost,
     dir |-> IF request.sessionId = NoId THEN "session_unknown"
             ELSE "session_" \o ToString(request.sessionId),
     name |-> resp.msg.obj.recName]

\* C30: the transcript is written to another file than the audio: after the
\* call the file that the audio was saved to still holds the audio, and the
\* transcript lies in a file beside it.
C30_TranscriptBesideAudio ==
    WriteDone =>
        /\ fs[SavedAudio] = Audio
        /\ \E path \in DOMAIN fs :
              /\ path /= SavedAudio
              /\ path.lost = SavedAudio.lost /\ path.dir = SavedAudio.dir
              /\ fs[path].kind = "text"

NoRecordings == Response(Text("No recordings received, aborting."), 400)

\* C31: a call of processSessionData without recordings returns 400 at once
\* and changes nothing: no row is inserted or updated, in the store or in a
\* transaction left open, and no file is written.
C31_NoRecordingsNoChange ==
    [][ (op' = "processSessionData" /\ local'.recordings = << >>) =>
            /\ pc' = "done"
            /\ resp' = NoRecordings
            /\ db' = db
            /\ tx' = EmptyTx
            /\ autoinc' = autoinc
            /\ fs' = fs ]_vars

\* A call without recordings has returned 400 after an earlier submission
\* had filled the store, and the store is as that submission left it.
C31_Witness ==
    /\ SessionDone
    /\ local.recordings = << >>
    /\ resp = NoRecordings
    /\ db = pre
    /\ db.recording /= {}

\* The number that getRecordingCount is to give on the committed rows.
Delivered(rows, name, sId, dId) ==
    LET byName == Cardinality({ r \in rows.recording :
                    /\ \E s \in rows.speaker : s.id = r.speakerId /\ s.name = name
                    /\ \E s \in rows.session : s.id = r.sessionId /\ s.deviceId = dId })
        byId == Cardinality({ r \in rows.recording : r.speakerId = sId })
    IN  IF byName >= byId THEN byName ELSE byId

\* C32: a submission that returns 200, and whose count met no storage error,
\* acknowledges the count of the committed rows for its speaker and device,
\* which is at least the number of its recordings; and no step lowers that
\* count for any name, speakerId and deviceId, so that the number
\* acknowledged to the same speaker on the same device never decreases from
\* one submission to the next.
C32_RecsDeliveredGrows ==
    [][ /\ \A name \in Names, sId \in 1..MaxCalls, dId \in 1..MaxCalls :
              Delivered(db', name, sId, dId) >= Delivered(db, name, sId, dId)
        /\ (op' = "processSessionData" /\ pc' = "done" /\ resp'.statusCode = 200
              /\ resp'.msg.obj.recsDelivered /= -1) =>
              /\ resp'.msg.obj.recsDelivered >= Len(local'.recordings)
              /\ resp'.msg.obj.recsDelivered =
                    Delivered(db', local'.speakerName, local'.speakerId, local'.deviceId)
      ]_vars

\* The second submission of a speaker on a device is acknowledged with more
\* recordings than it holds: those of the first are counted too.
C32_Witness ==
    /\ SessionDone /\ resp.statusCode = 200
    /\ pre.recording /= {}
    /\ resp.msg.obj.recsDelivered > Len(local.recordings)
    /\ resp.msg.obj.recsDelivered >
          Delivered(pre, local.speakerName, local.speakerId, local.deviceId)
====
